---- MODULE Spec2Model ----
(***************************************************************************)
(* Composite product index: the selection list held across UI re-renders   *)
(* (StreamlitApp.gather_user_inputs), the weighting and aggregation of the *)
(* selected series (StreamlitApp.process_data), the five-year display      *)
(* window (PlotManager.generate_plot) and the master table of              *)
(* StreamlitApp.run, over a repository of two tables (db.py).              *)
(*                                                                         *)
(* Data frames are sequences of rows.  Index values are integers; the      *)
(* product value * (weight / 100) is computed exactly, the repository's    *)
(* values being multiples of 100 and weights whole percents, so binary     *)
(* floating-point rounding is not part of this model.                      *)
(***************************************************************************)
EXTENDS Integers, Sequences, FiniteSets, TLC

\* ------------------------------------------------------------------ bounds
MaxSel == 2
MaxEdited == 2

\* ------------------------------------------------------- program constants
Hundred == 100
WindowYears == 5
SliderMin == 1
SliderMax == 10
SliderDefault == 3

\* ------------------------------------------------------------- input sets
\* marts.ppi_all_commodities, ORDER BY category_2, category_3
Catalog == << <<"Energy", "Oil">>, <<"Metals", "Steel">> >>

None == "<None>"
\* NaT, the missing timestamp: no date of the calendar
NaT == 0
NaN == "NaN"

Weights == {0, 50}
SeriesIds == {"WPU05", "WPU10"}

\* the dates each series reports on: the series run on different calendars
Calendar(id) ==
    IF id = "WPU05" THEN {<<2019, 2, 27>>, <<2024, 2, 29>>}
    ELSE {<<2019, 2, 28>>, <<2024, 2, 29>>}

Range(s) == {s[i] : i \in 1..Len(s)}
SeqsUpTo(S, n) == UNION {[1..k -> S] : k \in 0..n}
Min2(a, b) == IF a < b THEN a ELSE b

CatalogPairs == Range(Catalog)

\* the value the data source reports for a series on a date
PriceOf(id, date) ==
    Hundred * ((IF id = "WPU05" THEN 10 ELSE 20) + date[3] - 26 + (date[1] - 2019))

RawRow(id, date) == [observation_date |-> date, adjusted_index_value |-> PriceOf(id, date)]

\* the contents marts.ppi_adjusted_2020 may hold for one series: any of the
\* dates of its calendar, one row per date, in any order
SeriesContents(id) ==
    {[i \in 1..Len(ds) |-> RawRow(id, ds[i])] :
        ds \in {q \in SeqsUpTo(Calendar(id), Cardinality(Calendar(id))) :
                    \A i, j \in 1..Len(q) : i # j => q[i] # q[j]}}

DetailRows ==
    {[series_id |-> id, category_2 |-> p[1], category_3 |-> p[2]] :
        id \in SeriesIds, p \in CatalogPairs}

\* the contents marts.ppi_series_details may hold: one row per series, any order
SeriesDetailsTables ==
    {t \in SeqsUpTo(DetailRows, Cardinality(SeriesIds)) :
        \A i, j \in 1..Len(t) : i # j => t[i].series_id # t[j].series_id}

VARIABLES
    series_details,      \* marts.ppi_series_details: rows of series id and category pair
    observations,        \* marts.ppi_adjusted_2020: series id -> rows
    selections,          \* the list run passes to process_data
    pc,                  \* position of run after Submit
    exc,                 \* the exception that ended the run and the function that raised it
    failed_call,         \* which repository call of process_data failed, 0 when none did
    fetched,             \* series ids fetch_timeseries_data was asked for, in order
    aggregated_index,    \* process_data's results
    individual_indexes,
    index_categories,
    index_ids,
    fig,                 \* traces of the figure generate_plot returns
    master_df,           \* the master table run displays
    session_state,       \* st.session_state: a dictionary, empty before the first render
    num_categories,      \* the slider's value at the last render
    adjusted,            \* st.session_state.selections after the length adjustment
    ui_selections        \* the list gather_user_inputs returned

vars == <<series_details, observations, selections, pc, exc, failed_call, fetched, aggregated_index,
          individual_indexes, index_categories, index_ids, fig, master_df,
          session_state, num_categories, adjusted, ui_selections>>

repoVars == <<series_details, observations>>
engineVars == <<selections, pc, exc, failed_call, fetched, aggregated_index, individual_indexes,
                index_categories, index_ids, fig, master_df>>
uiVars == <<session_state, num_categories, adjusted, ui_selections>>

\* ------------------------------------------------------------------ db.py
\* DatabaseBigQuery.fetch_series_data: the series ids of the rows of the category
\* pair, in table order; an absent or empty category_3 leaves its condition out
FetchSeriesData(category_2, category_3) ==
    LET matching ==
            SelectSeq(series_details,
                      LAMBDA row : /\ row.category_2 = category_2
                                   /\ (category_3 # None /\ category_3 # "")
                                          => row.category_3 = category_3)
    IN [i \in 1..Len(matching) |-> matching[i].series_id]

\* a faulty variant: the last id of the list is the one fetched
FetchedIdLast(series_id) == series_id[Len(series_id)]

\* DatabaseBigQuery.fetch_timeseries_data: the rows of the FIRST id of the list
FetchedId(series_id) == series_id[1]

FetchTimeseriesData(series_id) == observations[FetchedId(series_id)]

\* ----------------------------------------------------------- data frames
EmptyFrame == [columns |-> << >>, rows |-> << >>]

\* pd.to_datetime on a date: a timestamp, ordered like the calendar
ToDatetime(date) == date[1] * 10000 + date[2] * 100 + date[3]

ConvertDates(rows) ==
    [i \in 1..Len(rows) |->
        [observation_date |-> ToDatetime(rows[i].observation_date),
         adjusted_index_value |-> rows[i].adjusted_index_value]]

\* DataFrame.sort_values(by='observation_date')
RECURSIVE SortByDate(_)
InsertByDate(sorted, r) ==
    LET before == SelectSeq(sorted, LAMBDA x : x.observation_date <= r.observation_date)
        after == SelectSeq(sorted, LAMBDA x : x.observation_date > r.observation_date)
    IN before \o <<r>> \o after
SortByDate(rows) ==
    IF rows = << >> THEN << >>
    ELSE InsertByDate(SortByDate(SubSeq(rows, 1, Len(rows) - 1)), rows[Len(rows)])

\* a faulty variant: the weight is not applied
ScaleUnweighted(value, weight) == value

\* adjusted_index_value * (weight / 100)
Scale(value, weight) == (value * weight) \div Hundred

WeightRows(rows, weight) ==
    [i \in 1..Len(rows) |->
        [observation_date |-> rows[i].observation_date,
         adjusted_index_value |-> Scale(rows[i].adjusted_index_value, weight)]]

\* pd.concat of a list of frames
RECURSIVE Concat(_)
Concat(frames) ==
    IF frames = << >> THEN << >> ELSE Head(frames) \o Concat(Tail(frames))

\* the ascending list of a set of timestamps
RECURSIVE Ascending(_)
Ascending(S) ==
    IF S = {} THEN << >>
    ELSE LET m == CHOOSE x \in S : \A y \in S : x <= y
         IN <<m>> \o Ascending(S \ {m})

\* a faulty variant: a group keeps the value of its first row
RECURSIVE GroupFirst(_, _)
GroupFirst(rows, d) ==
    IF rows = << >> THEN 0
    ELSE IF Head(rows).observation_date = d THEN Head(rows).adjusted_index_value
    ELSE GroupFirst(Tail(rows), d)

\* the sum of one group, rows added in frame order
RECURSIVE GroupSum(_, _)
GroupSum(rows, d) ==
    IF rows = << >> THEN 0
    ELSE (IF Head(rows).observation_date = d THEN Head(rows).adjusted_index_value ELSE 0)
         + GroupSum(Tail(rows), d)

\* groupby('observation_date').sum().reset_index(): one row per key, keys ascending
GroupByDateSum(rows) ==
    LET keys == Ascending({rows[i].observation_date : i \in 1..Len(rows)})
    IN [i \in 1..Len(keys) |->
           [observation_date |-> keys[i],
            adjusted_index_value |-> GroupSum(rows, keys[i])]]

Aggregate(weighted_dataframes) ==
    IF weighted_dataframes # << >>
    THEN [columns |-> <<"observation_date", "adjusted_index_value">>,
          rows |-> SortByDate(GroupByDateSum(Concat(weighted_dataframes)))]
    ELSE EmptyFrame

\* ----------------------------------------------------- app.py: process_data
DataColumns == <<"observation_date", "adjusted_index_value">>

\* f"{x}"
ToStr(x) == IF x = None THEN "None" ELSE x

\* a faulty variant: the copy is taken after the weighting
IndividualCopyWeighted(timeseries_data, weight) ==
    [index |-> None, columns |-> DataColumns,
     rows |-> SortByDate(WeightRows(timeseries_data, weight))]

\* line 113: the sorted copy kept for display, taken before the weighting
IndividualCopy(timeseries_data, weight) ==
    [index |-> None, columns |-> DataColumns, rows |-> SortByDate(timeseries_data)]

\* line 116: the identifier recorded for a selection
RecordedId(series_id) == ToStr(series_id[1])

\* a faulty variant: the label is the selection's category_2
RecordedLabelCategory2(selection) == ToStr(selection[1])

\* line 117: the label recorded for a selection
RecordedLabel(selection) == ToStr(selection[2])

NoException == [type |-> None, in |-> None]
Raised(type, function) == [type |-> type, in |-> function]

StartAcc ==
    [individual_indexes |-> << >>, index_categories |-> << >>, index_ids |-> << >>,
     weighted_dataframes |-> << >>, fetched |-> << >>, calls |-> 0,
     failed |-> 0, raised |-> FALSE, exc |-> NoException]

\* line 108, if series_id: a list is true when it is not empty
\* (a faulty variant first: the test is left out)
IsTruthyAlways(series_id) == TRUE

IsTruthy(series_id) == series_id # << >>

\* a faulty variant: the failure is swallowed and the selection skipped
OnFailureSwallowed(acc) == [acc EXCEPT !.failed = acc.calls]

\* lines 106 and 109 call the repository outside any try: a call that raises
\* ends process_data there
OnFailure(acc) ==
    [acc EXCEPT !.failed = acc.calls, !.raised = TRUE,
                !.exc = Raised("RepositoryError", "process_data")]

\* the body of the loop (lines 106-121) for one selection; the failAt-th call of
\* the repository raises (0: none does)
LoopBody(acc, selection, failAt) ==
    IF acc.raised THEN acc
    ELSE IF acc.calls + 1 = failAt
    THEN OnFailure([acc EXCEPT !.calls = @ + 1])
    ELSE LET series_id == FetchSeriesData(selection[1], selection[2])
         IN IF ~IsTruthy(series_id)
            THEN [acc EXCEPT !.calls = @ + 1]
            ELSE IF series_id = << >>
            THEN \* db.py line 62, series_id[0] of an empty list
                 [acc EXCEPT !.calls = @ + 1, !.raised = TRUE,
                             !.exc = Raised("IndexError", "process_data")]
            ELSE IF acc.calls + 2 = failAt
            THEN OnFailure([acc EXCEPT !.calls = @ + 2,
                                       !.fetched = Append(@, FetchedId(series_id))])
            ELSE LET timeseries_data == ConvertDates(FetchTimeseriesData(series_id))
                 IN [acc EXCEPT
                        !.calls = @ + 2,
                        !.fetched = Append(@, FetchedId(series_id)),
                        !.individual_indexes =
                            Append(@, IndividualCopy(timeseries_data, selection[3])),
                        !.index_ids = Append(@, RecordedId(series_id)),
                        !.index_categories = Append(@, RecordedLabel(selection)),
                        !.weighted_dataframes =
                            Append(@, WeightRows(timeseries_data, selection[3]))]

RECURSIVE Loop(_, _)
Loop(sels, failAt) ==
    IF sels = << >> THEN StartAcc
    ELSE LoopBody(Loop(SubSeq(sels, 1, Len(sels) - 1), failAt), sels[Len(sels)], failAt)

\* process_data(selections) as a function of its argument and the repository
ProcessDataResult(sels, failAt) ==
    LET acc == Loop(sels, failAt)
    IN [raised |-> acc.raised,
        exc |-> acc.exc,
        failed |-> acc.failed,
        fetched |-> acc.fetched,
        calls |-> acc.calls,
        aggregated_index |-> Aggregate(acc.weighted_dataframes),
        individual_indexes |-> acc.individual_indexes,
        index_categories |-> acc.index_categories,
        index_ids |-> acc.index_ids]

ProcessData ==
    /\ pc = "submitted"
    /\ \E failAt \in 0..ProcessDataResult(selections, 0).calls :
          LET r == ProcessDataResult(selections, failAt)
          IN IF r.raised
             THEN /\ pc' = "raised"
                  /\ exc' = r.exc
                  /\ failed_call' = r.failed
                  /\ fetched' = r.fetched
                  /\ UNCHANGED <<aggregated_index, individual_indexes,
                                 index_categories, index_ids>>
             ELSE /\ pc' = "processed"
                  /\ exc' = NoException
                  /\ failed_call' = r.failed
                  /\ fetched' = r.fetched
                  /\ aggregated_index' = r.aggregated_index
                  /\ individual_indexes' = r.individual_indexes
                  /\ index_categories' = r.index_categories
                  /\ index_ids' = r.index_ids
    /\ UNCHANGED <<selections, fig, master_df>>
    /\ UNCHANGED repoVars
    /\ UNCHANGED uiVars

\* ---------------------------------------------------- app.py: generate_plot
IsLeap(y) == (y % 4 = 0 /\ y % 100 # 0) \/ y % 400 = 0

\* ts - pd.DateOffset(years=n): the same month and day n years earlier, a
\* 29 February falling back on the 28th; NaT stays NaT
MinusYears(ts, n) ==
    IF ts = NaT THEN NaT
    ELSE LET y == (ts \div 10000) - n
             m == (ts \div 100) % 100
             d == ts % 100
         IN y * 10000 + m * 100
            + (IF m = 2 /\ d = 29 /\ ~IsLeap(y) THEN 28 ELSE d)

\* Series.max(): NaT for an empty column
MaxDate(rows) ==
    IF rows = << >> THEN NaT
    ELSE CHOOSE x \in {rows[i].observation_date : i \in 1..Len(rows)} :
             \A i \in 1..Len(rows) : rows[i].observation_date <= x

\* a faulty variant: the row on the start date is left out
WindowFilterStrict(rows, start_date) ==
    IF start_date = NaT THEN << >>
    ELSE SelectSeq(rows, LAMBDA r : r.observation_date > start_date)

\* frame[frame['observation_date'] >= start_date]; a comparison with NaT is False
WindowFilter(rows, start_date) ==
    IF start_date = NaT THEN << >>
    ELSE SelectSeq(rows, LAMBDA r : r.observation_date >= start_date)

\* lines 21 and 33 bind the filtered frames to local names: the frames passed in
\* are what they were
CompositeAfterPlot(frame, start_date) == frame
IndividualAfterPlot(frame, start_date) == frame

GeneratePlot ==
    /\ pc = "processed"
    /\ IF "observation_date" \notin Range(aggregated_index.columns)
       THEN /\ pc' = "raised"
            /\ exc' = Raised("KeyError", "generate_plot")
            /\ UNCHANGED <<fig, aggregated_index, individual_indexes>>
       ELSE LET last_date == MaxDate(aggregated_index.rows)
                start_date == MinusYears(last_date, WindowYears)
                n == Min2(Len(individual_indexes), Len(index_categories))
            IN /\ fig' = <<[name |-> "Composite Index",
                            rows |-> WindowFilter(aggregated_index.rows, start_date)]>>
                         \o [i \in 1..n |->
                               [name |-> index_categories[i],
                                rows |-> WindowFilter(individual_indexes[i].rows,
                                                      start_date)]]
               /\ aggregated_index' = CompositeAfterPlot(aggregated_index, start_date)
               /\ individual_indexes' =
                      [i \in 1..Len(individual_indexes) |->
                          IF i <= n
                          THEN IndividualAfterPlot(individual_indexes[i], start_date)
                          ELSE individual_indexes[i]]
               /\ pc' = "plotted"
               /\ exc' = NoException
    /\ UNCHANGED <<selections, failed_call, fetched, index_categories, index_ids, master_df>>
    /\ UNCHANGED repoVars
    /\ UNCHANGED uiVars

\* ------------------------------------------- app.py: run, the master table
\* df.set_index('observation_date', inplace=True)
SetIndex(frame) ==
    [index |-> "observation_date",
     columns |-> SelectSeq(frame.columns, LAMBDA c : c # "observation_date"),
     rows |-> frame.rows]

\* df.rename(columns={'adjusted_index_value': name})
Rename(frame, name) ==
    [index |-> frame.index,
     columns |-> [i \in 1..Len(frame.columns) |->
                     IF frame.columns[i] = "adjusted_index_value"
                     THEN name ELSE frame.columns[i]],
     rows |-> frame.rows]

\* lines 176-180: one renamed frame per distinct label, the first one met
RECURSIVE RenamedDfs(_, _)
RenamedDfs(frames, names) ==
    LET n == Min2(Len(frames), Len(names))
    IN IF n = 0 THEN << >>
       ELSE LET done == RenamedDfs(SubSeq(frames, 1, n - 1), SubSeq(names, 1, n - 1))
            IN IF \E i \in 1..Len(done) : names[n] \in Range(done[i].columns)
               THEN done
               ELSE Append(done, Rename(frames[n], names[n]))

ValueOn(rows, d) ==
    IF \E i \in 1..Len(rows) : rows[i].observation_date = d
    THEN (CHOOSE r \in Range(rows) : r.observation_date = d).adjusted_index_value
    ELSE NaN

\* pd.concat(renamed_dfs, axis=1): the frames side by side on the union of their
\* indexes, NaN where a frame has no row
ConcatColumns(renamed_dfs) ==
    LET dates == UNION {{r.observation_date : r \in Range(renamed_dfs[i].rows)} :
                            i \in 1..Len(renamed_dfs)}
    IN [columns |-> [i \in 1..Len(renamed_dfs) |-> renamed_dfs[i].columns[1]],
        data |-> [d \in dates |->
                     [i \in 1..Len(renamed_dfs) |-> ValueOn(renamed_dfs[i].rows, d)]]]

BuildMasterTable ==
    /\ pc = "plotted"
    /\ individual_indexes' =
           [i \in 1..Len(individual_indexes) |-> SetIndex(individual_indexes[i])]
    /\ LET renamed_dfs == RenamedDfs(individual_indexes', index_categories)
       IN IF renamed_dfs = << >>
          THEN /\ pc' = "raised"
               /\ exc' = Raised("ValueError", "run")
               /\ UNCHANGED master_df
          ELSE /\ master_df' = ConcatColumns(renamed_dfs)
               /\ pc' = "done"
               /\ exc' = NoException
    /\ UNCHANGED <<selections, failed_call, fetched, aggregated_index, index_categories,
                   index_ids, fig>>
    /\ UNCHANGED repoVars
    /\ UNCHANGED uiVars

\* ----------------------------------------------- app.py: gather_user_inputs
Placeholder == <<None, None, 0>>

\* Series.unique().tolist(): the values in order of first appearance
RECURSIVE Unique(_)
Unique(s) ==
    IF s = << >> THEN << >>
    ELSE LET init == Unique(SubSeq(s, 1, Len(s) - 1))
         IN IF s[Len(s)] \in Range(init) THEN init ELSE Append(init, s[Len(s)])

Category2Options == Unique([i \in 1..Len(Catalog) |-> Catalog[i][1]])

Category3Options(selected_category_2) ==
    LET filtered_df_3 == SelectSeq(Catalog, LAMBDA row : row[1] = selected_category_2)
    IN Unique([i \in 1..Len(filtered_df_3) |-> filtered_df_3[i][2]])

\* options.index(current) if current in options else 0, as a position from 1
DefaultIndex(options, current) ==
    IF current \in Range(options)
    THEN CHOOSE i \in 1..Len(options) :
             options[i] = current /\ \A j \in 1..(i - 1) : options[j] # current
    ELSE 1

\* a selectbox: the option the user picked, else the option at the default index
\* (None when there is no option)
Selectbox(options, index, picked) ==
    IF options = << >> THEN None
    ELSE IF picked \in Range(options) THEN picked
    ELSE options[index]

\* line 65: the list created on the first render
InitialSession(n) == [i \in 1..n |-> Placeholder]

\* lines 68-69
RECURSIVE Grow(_, _)
Grow(list, n) == IF Len(list) < n THEN Grow(Append(list, Placeholder), n) ELSE list

\* a faulty variant: the list is never shortened
ShrinkNever(list, n) == list

\* lines 71-72
RECURSIVE Shrink(_, _)
Shrink(list, n) == IF Len(list) > n THEN Shrink(SubSeq(list, 1, Len(list) - 1), n) ELSE list

NoEdit == <<0, None, None, 0>>

\* lines 76-90 for row i: edit[1] is the row whose widgets the user changed
RowSelection(state, i, edit) ==
    LET touched == (edit[1] = i)
        category_2_options == Category2Options
        selected_category_2 ==
            Selectbox(category_2_options,
                      DefaultIndex(category_2_options, state[i][1]),
                      IF touched THEN edit[2] ELSE None)
        category_3_options == Category3Options(selected_category_2)
        selected_category_3 ==
            Selectbox(category_3_options,
                      DefaultIndex(category_3_options, state[i][2]),
                      IF touched THEN edit[3] ELSE None)
        weight == IF touched THEN edit[4] ELSE state[i][3]
    IN <<selected_category_2, selected_category_3, weight>>

\* lines 75-90: one tuple per row of the form
CollectRows(state, n, edit) == [i \in 1..n |-> RowSelection(state, i, edit)]

Edits(n) ==
    {NoEdit} \cup {<<i, p[1], p[2], w>> :
                      i \in 1..Min2(n, MaxEdited), p \in CatalogPairs, w \in Weights}

\* the first run of the script shows the slider at its default, nothing edited;
\* every later run follows the change of one widget: the slider, or one row
FirstRender == "selections" \notin DOMAIN session_state

GatherUserInputs ==
    /\ pc = "idle"
    /\ \E n \in (IF FirstRender THEN {SliderDefault} ELSE SliderMin..SliderMax) :
       \E edit \in (IF FirstRender \/ n # num_categories THEN {NoEdit} ELSE Edits(n)) :
          LET created == IF "selections" \notin DOMAIN session_state
                         THEN InitialSession(n)
                         ELSE session_state.selections
              state == Shrink(Grow(created, n), n)
              rows == CollectRows(state, n, edit)
          IN /\ num_categories' = n
             /\ adjusted' = state
             /\ session_state' = [selections |-> rows]
             /\ ui_selections' = rows
    /\ UNCHANGED engineVars
    /\ UNCHANGED repoVars

\* ------------------------------------------------------------ specification
SelectionValues == {<<p[1], p[2], w>> : p \in CatalogPairs, w \in Weights}

EmptySession == [k \in {} |-> << >>]

UiIdle ==
    /\ session_state = EmptySession
    /\ num_categories = SliderDefault
    /\ adjusted = << >>
    /\ ui_selections = << >>

Init ==
    /\ series_details \in SeriesDetailsTables
    /\ observations \in {f \in [SeriesIds -> UNION {SeriesContents(id) : id \in SeriesIds}] :
                            \A id \in SeriesIds : f[id] \in SeriesContents(id)}
    /\ selections \in SeqsUpTo(SelectionValues, MaxSel)
    /\ pc = "submitted"
    /\ exc = NoException
    /\ failed_call = 0
    /\ fetched = << >>
    /\ aggregated_index = EmptyFrame
    /\ individual_indexes = << >>
    /\ index_categories = << >>
    /\ index_ids = << >>
    /\ fig = << >>
    /\ master_df = [columns |-> << >>, data |-> << >>]
    /\ UiIdle

Next == ProcessData \/ GeneratePlot \/ BuildMasterTable

Spec == Init /\ [][Next]_vars

\* the form alone: the page is rendered again and again, nothing is submitted
InitUI ==
    /\ series_details = << >>
    /\ observations = [id \in SeriesIds |-> << >>]
    /\ selections = << >>
    /\ pc = "idle"
    /\ exc = NoException
    /\ failed_call = 0
    /\ fetched = << >>
    /\ aggregated_index = EmptyFrame
    /\ individual_indexes = << >>
    /\ index_categories = << >>
    /\ index_ids = << >>
    /\ fig = << >>
    /\ master_df = [columns |-> << >>, data |-> << >>]
    /\ UiIdle

NextUI == GatherUserInputs

SpecUI == InitUI /\ [][NextUI]_vars

\* ================================================================= claims
\* What the claims speak of, stated on the repository's tables and the selection
\* list alone.

\* the series ids the repository holds for a selection's category pair
ResolvedIds(selection) ==
    LET hits == SelectSeq(series_details,
                          LAMBDA row : row.category_2 = selection[1]
                                       /\ row.category_3 = selection[2])
    IN [i \in 1..Len(hits) |-> hits[i].series_id]

Survives(selection) == ResolvedIds(selection) # << >>

\* the surviving selections, in selection order
Survivors(sels) == SelectSeq(sels, Survives)

FirstId(selection) == ResolvedIds(selection)[1]

\* the (timestamp, value) points of the series a surviving selection stands for
Points(selection) ==
    {<<ToDatetime(r.observation_date), r.adjusted_index_value>> :
        r \in Range(observations[FirstId(selection)])}

DatesOf(selection) == {pt[1] : pt \in Points(selection)}

\* the selection's value on d in hundredths after weighting, 0 without a row on d
Contribution(selection, d) ==
    IF d \in DatesOf(selection)
    THEN (CHOOSE pt \in Points(selection) : pt[1] = d)[2] * selection[3]
    ELSE 0

RECURSIVE TotalOn(_, _)
TotalOn(survivors, d) ==
    IF survivors = << >> THEN 0
    ELSE Contribution(Head(survivors), d) + TotalOn(Tail(survivors), d)

StrictlyAscending(rows) ==
    \A i, j \in 1..Len(rows) : i < j => rows[i].observation_date < rows[j].observation_date

CompositeMatches ==
    LET rows == aggregated_index.rows
        survivors == Survivors(selections)
    IN /\ {rows[i].observation_date : i \in 1..Len(rows)}
            = UNION {DatesOf(survivors[k]) : k \in 1..Len(survivors)}
       /\ StrictlyAscending(rows)
       /\ \A i \in 1..Len(rows) :
             Hundred * rows[i].adjusted_index_value
                 = TotalOn(survivors, rows[i].observation_date)

IndividualsMatch ==
    LET survivors == Survivors(selections)
    IN /\ Len(individual_indexes) = Len(survivors)
       /\ \A k \in 1..Len(survivors) :
             LET rows == individual_indexes[k].rows
             IN /\ StrictlyAscending(rows)
                /\ Len(rows) = Len(observations[FirstId(survivors[k])])
                /\ {<<rows[i].observation_date, rows[i].adjusted_index_value>> :
                        i \in 1..Len(rows)} = Points(survivors[k])

Returned == pc = "processed"

\* C1: the composite process_data returns has one row per date of the union of
\* the surviving series' dates, in ascending date order, and its value on a date
\* is the sum over the surviving series with a row on that date of
\* value * weight / 100, the weights taken as given.
C1_CompositeIsWeightedSum == Returned => CompositeMatches

\* two surviving series on different calendars, weight 50 each: three dates, the
\* common one holding the sum of the two halves
C1_Witness ==
    /\ Returned
    /\ Len(selections) = 2
    /\ Len(Survivors(selections)) = 2
    /\ selections[1][3] = 50
    /\ selections[2][3] = 50
    /\ FirstId(selections[1]) # FirstId(selections[2])
    /\ Len(aggregated_index.rows) = 3
    /\ aggregated_index.rows[3].adjusted_index_value
           = (PriceOf("WPU05", <<2024, 2, 29>>) + PriceOf("WPU10", <<2024, 2, 29>>)) \div 2

\* C2: with no surviving selection (an empty list, or every selection resolved to
\* no identifier) process_data returns an empty composite and three empty lists,
\* and does not raise.
C2_EmptyResult ==
    (Survivors(selections) = << >> /\ failed_call = 0)
        => /\ ~(pc = "raised" /\ exc.in = "process_data")
           /\ Returned => /\ aggregated_index = EmptyFrame
                          /\ individual_indexes = << >>
                          /\ index_categories = << >>
                          /\ index_ids = << >>

\* two selections, neither with a series in a repository that holds series
C2_Witness ==
    /\ Returned
    /\ Len(selections) = 2
    /\ series_details # << >>
    /\ Survivors(selections) = << >>
    /\ aggregated_index = EmptyFrame

\* C3: when the computation ends with no surviving selection, generate_plot and
\* the master-table build complete without raising.
C3_RenderingCompletes ==
    Survivors(selections) = << >> => ~(pc = "raised" /\ exc.in \in {"generate_plot", "run"})

C5_ParallelLists ==
    Returned =>
        LET survivors == Survivors(selections)
        IN /\ Len(individual_indexes) = Len(survivors)
           /\ Len(index_categories) = Len(survivors)
           /\ Len(index_ids) = Len(survivors)
           /\ \A k \in 1..Len(survivors) :
                 /\ index_categories[k] = survivors[k][2]
                 /\ index_ids[k] = FirstId(survivors[k])
                 /\ {r.observation_date : r \in Range(individual_indexes[k].rows)}
                        = DatesOf(survivors[k])

\* the first selection is dropped, the second one survives
C5_Witness ==
    /\ Returned
    /\ Len(selections) = 2
    /\ ~Survives(selections[1])
    /\ Survives(selections[2])
    /\ Len(index_categories) = 1
    /\ individual_indexes[1].rows # << >>

\* the timestamp n calendar years before ts: the same month and day, the 28th
\* for a 29 February that the earlier year does not have
CalendarYearsBefore(ts, n) ==
    LET year == ts \div 10000
        monthday == ts % 10000
        feb29 == monthday = 229
        earlier == year - n
        leap == earlier % 400 = 0 \/ (earlier % 4 = 0 /\ earlier % 100 # 0)
    IN earlier * 10000 + (IF feb29 /\ ~leap THEN 228 ELSE monthday)

KeptRows(rows, start) == SelectSeq(rows, LAMBDA r : r.observation_date >= start)

\* C6: generate_plot shows exactly the rows dated on or after the composite's
\* latest date minus five calendar years, and leaves the composite and every
\* individual series as process_data returned them.
C6_WindowIsPureFilter ==
    pc = "plotted" =>
        LET rows == aggregated_index.rows
        IN /\ CompositeMatches
           /\ IndividualsMatch
           /\ Len(fig) = 1 + Len(individual_indexes)
           /\ IF rows = << >>
              THEN \A t \in 1..Len(fig) : fig[t].rows = << >>
              ELSE LET start == CalendarYearsBefore(rows[Len(rows)].observation_date,
                                                    WindowYears)
                   IN /\ fig[1].rows = KeptRows(rows, start)
                      /\ \A k \in 1..Len(individual_indexes) :
                            fig[k + 1].rows = KeptRows(individual_indexes[k].rows, start)

\* the latest date is 29 February 2024: the row of 28 February 2019 is shown, the
\* row of 27 February 2019 is not
C6_Witness ==
    /\ pc = "plotted"
    /\ Len(aggregated_index.rows) = 3
    /\ Len(fig[1].rows) = 2
    /\ fig[1].rows[1].observation_date = 20190228

Orderings(n) == {p \in [1..n -> 1..n] : \A i, j \in 1..n : i # j => p[i] # p[j]}

\* C7: process_data returns the same composite for every permutation of the
\* selection list.
C7_OrderIndependent ==
    Returned =>
        \A p \in Orderings(Len(selections)) :
            ProcessDataResult([i \in 1..Len(selections) |-> selections[p[i]]], 0)
                .aggregated_index = aggregated_index

\* two different surviving selections that share a date
C7_Witness ==
    /\ Returned
    /\ Len(selections) >= 2
    /\ Survives(selections[1])
    /\ Survives(selections[2])
    /\ selections[1] # selections[2]
    /\ selections[1][3] # 0
    /\ selections[2][3] # 0
    /\ DatesOf(selections[1]) \cap DatesOf(selections[2]) # {}

RECURSIVE CallsOf(_)
CallsOf(sels) ==
    IF sels = << >> THEN << >>
    ELSE <<"lookup">>
         \o (IF Survives(Head(sels)) THEN <<FirstId(Head(sels))>> ELSE << >>)
         \o CallsOf(Tail(sels))

C9_IndividualUnweighted == Returned => IndividualsMatch

\* a series stored latest date first, selected with weight 50
C9_Witness ==
    /\ Returned
    /\ Len(selections) = 1
    /\ selections[1][3] = 50
    /\ Survives(selections[1])
    /\ Len(individual_indexes[1].rows) = 2
    /\ observations[FirstId(selections[1])][1].observation_date = <<2024, 2, 29>>

Rendered == "selections" \in DOMAIN session_state

\* C10: after every call of gather_user_inputs the session's list has as many
\* entries as the slider shows, between 1 and 10; it is the list returned; and
\* the list the form was built from is the previous list cut from the end or
\* filled with (None, None, 0.0) to that length.
C10_LengthFollowsSlider ==
    /\ [](Rendered =>
            /\ Len(session_state.selections) = num_categories
            /\ ui_selections = session_state.selections
            /\ Len(ui_selections) \in SliderMin..SliderMax
            /\ Len(adjusted) = num_categories)
    /\ [][adjusted' = [i \in 1..num_categories' |->
                          IF Rendered /\ i <= Len(session_state.selections)
                          THEN session_state.selections[i]
                          ELSE Placeholder]]_vars

\* the list grown to ten entries from a shorter one whose first row was edited
C10_Witness ==
    /\ Rendered
    /\ num_categories = SliderMax
    /\ Len(session_state.selections) = SliderMax
    /\ adjusted[SliderMax] = Placeholder
    /\ adjusted[1][3] = 50

====
